---- MODULE Spec2Model ----
(***************************************************************************)
(* A model of youtube_title_renamer.py: the batch pipeline that walks the  *)
(* configured directories, looks up a title for every .mp4 file, renames   *)
(* the file, records it in the metadata log and asks Plex to rescan.       *)
(*                                                                         *)
(* Text is modelled as a sequence of one-character strings, so that        *)
(* substring search, suffix tests, trimming and sanitising are computed    *)
(* on characters as the code computes them.  A fixed piece of text written *)
(* by the program itself (the timestamp and level of a log line, the words *)
(* of a message) is one multi-character element of such a sequence: it is  *)
(* never equal to a character of an identifier or of a title.              *)
(***************************************************************************)
EXTENDS Integers, Sequences, FiniteSets, TLC

\* ------------------------------------------------------------------ bounds

\* Longest directory_paths list explored.
MaxDirs == 2
\* Largest max_retries explored.
MaxRetries == 2
\* The max_log_entries explored.
MaxLogEntries == 2
\* Runs of the script, one after the other over the same disk.
MaxRuns == 2
\* Longest title handed to trim_title on its own, and the largest limit.
MaxTitleLen == 5
\* Longest filename handed to sanitize_filename on its own.
MaxNameLen == 3

\* ------------------------------------------------------------------ text

\* fetch_youtube_title's None, and the KeyError and the ValueError of
\* str.format, as texts that no title and no filename can be.
None == <<"None">>
KeyError == <<"KeyError">>
ValueError == <<"ValueError">>
FormatErrors == {KeyError, ValueError}
\* The content of a file that does not exist, and the listing of a directory
\* that does not exist.
NoFile == << <<"NoFile">> >>
NoDir == { <<"NoDir">> }

Mp4 == <<".", "m", "p", "4">>

Forbidden == {"<", ">", ":", "\"", "/", "\\", "|", "?", "*"}

Whitespace == {" ", "\t"}

UnnamedFile == <<"u", "n", "n", "a", "m", "e", "d", "_", "f", "i", "l", "e">>

Digits == <<"0", "1", "2", "3", "4", "5", "6", "7", "8", "9">>

\* str(n) for n >= 0
RECURSIVE IntStr(_)
IntStr(n) == IF n < 10 THEN <<Digits[n + 1]>>
             ELSE IntStr(n \div 10) \o <<Digits[(n % 10) + 1]>>

\* s.endswith(suf)
EndsWith(s, suf) ==
    /\ Len(s) >= Len(suf)
    /\ SubSeq(s, Len(s) - Len(suf) + 1, Len(s)) = suf

\* sub in line
Contains(line, sub) ==
    \E i \in 0..(Len(line) - Len(sub)) : SubSeq(line, i + 1, i + Len(sub)) = sub

\* s.rfind(c), 1-based; 0 when c does not occur
RFind(s, c) ==
    IF \E i \in 1..Len(s) : s[i] = c
    THEN CHOOSE i \in 1..Len(s) : s[i] = c /\ \A j \in (i + 1)..Len(s) : s[j] # c
    ELSE 0

\* Path(name).stem: the name without its last suffix; a leading or a trailing
\* dot starts no suffix.
Stem(name) ==
    LET p == RFind(name, ".")
    IN IF p > 1 /\ p < Len(name) THEN SubSeq(name, 1, p - 1) ELSE name

\* s.strip() == ""
IsBlank(s) == \A i \in 1..Len(s) : s[i] \in Whitespace

sanitize_filename(filename) ==
    LET sanitized == [i \in 1..Len(filename) |->
                        IF filename[i] \in Forbidden THEN "_" ELSE filename[i]]
    IN IF IsBlank(sanitized) THEN UnnamedFile ELSE sanitized

\* RSplitHead splitting at the first space instead of the last: s.split(' ', 1)[0]
RSplitHead_First(s) ==
    IF \E i \in 1..Len(s) : s[i] = " "
    THEN SubSeq(s, 1, (CHOOSE i \in 1..Len(s) :
                         s[i] = " " /\ \A j \in 1..(i - 1) : s[j] # " ") - 1)
    ELSE s

\* s.rsplit(' ', 1)[0]
RSplitHead(s) ==
    LET p == RFind(s, " ")
    IN IF p = 0 THEN s ELSE SubSeq(s, 1, p - 1)

\* trim_title with the configured limit passed in
TrimTo(title, limit) ==
    IF Len(title) <= limit THEN title
    ELSE RSplitHead(SubSeq(title, 1, limit))

\* datetime.now().strftime("%Y%m%d"): eight digits
DateStr == <<"2", "0", "2", "4", "0", "1", "3", "1">>

\* A pattern is a sequence of literal characters and replacement fields; a
\* brace on its own is a brace that opens or closes no field.
FieldTitle == "{title}"
FieldVideoId == "{video_id}"
FieldDate == "{date}"
FieldChannel == "{channel_name}"
Fields == {FieldTitle, FieldVideoId, FieldDate, FieldChannel}

Braces == {"{", "}"}

DefaultPattern == <<FieldTitle>> \o Mp4
\* A pattern naming a field format is not given, and one with a stray brace.
UnknownFieldPattern == <<FieldChannel>> \o Mp4
MalformedPattern == <<FieldTitle, "{">> \o Mp4

\* pattern.format(title=t, video_id=v, date=d): the pattern is read from the
\* left, and the first field that cannot be filled (KeyError) or brace that
\* cannot be parsed (ValueError) raises.
RECURSIVE Format(_, _, _, _)
Format(pattern, t, v, d) ==
    IF pattern = <<>> THEN <<>>
    ELSE LET h == Head(pattern)
             rest == Format(Tail(pattern), t, v, d)
         IN IF h = FieldChannel THEN KeyError
            ELSE IF h \in Braces THEN ValueError
            ELSE IF rest \in FormatErrors THEN rest
            ELSE (CASE h = FieldTitle -> t
                    [] h = FieldVideoId -> v
                    [] h = FieldDate -> d
                    [] OTHER -> <<h>>) \o rest

apply_filename_pattern(pattern, title, video_id) ==
    Format(pattern, sanitize_filename(title), video_id, DateStr)

\* ------------------------------------------------------------------ inputs

\* The directories that directory_paths may name, and the files they may hold.
DirD == <<"/", "d">>
DirE == <<"/", "e">>
Dirs == {DirD, DirE}

FileQ == <<"q">> \o Mp4
FileZ == <<"z">> \o Mp4
FileN == <<"n">>

\* The texts a title lookup may extract from the page.
TitleQ == <<"q">>
TitleXY == <<"x", " ", "y">>
Titles == {<<>>, TitleQ, TitleXY}

\* One HTTP GET of the watch page: a title extracted, a response without one
\* (status other than 200, or no title element), or requests raising.
Responses ==
    [status : {"ok"}, title : Titles]
        \cup {[status |-> "fail", title |-> None], [status |-> "raise", title |-> None]}

\* The files the log and the metadata log may be.
RenamedLog == "renamed_files.log"
RunLog == "run.log"
TextPaths == {RenamedLog, RunLog}

\* A line the metadata log holds from an earlier run.
EarlierEntry == <<"q", ",", "o">> \o Mp4

\* ------------------------------------------------------------------ state

VARIABLES
    dry_run,            \* --dry-run
    interactive_mode,   \* --interactive
    config,             \* config.json, read once
    fs,                 \* directory -> the names of the files in it, or NoDir
    disk,               \* text file -> its lines, or NoFile
    pc,                 \* where the run is
    dirIdx,             \* position of the driver's loop in directory_paths
    todo,               \* the files of the listing not yet visited
    file,               \* the file being processed
    video_id,
    title,
    new_name,
    confirm,            \* the answer to the interactive prompt, stripped and lowered
    new_file_path,      \* rename_file's target, once os.rename has moved the file
    attempt,            \* fetch_youtube_title's loop variable
    gets,               \* GETs of the watch page made for this file
    fails,              \* those of them that gave no title
    naps,               \* retry_delay sleeps made for this file
    renamed,            \* os.rename has completed for this file
    recorded,           \* log_renamed_file has written this file's line
    ended,              \* how the loop body was last left, until the next file
    slept,              \* the step just taken ended in the wait_timer sleep
    scans,              \* per directory_paths entry: calls of trigger_plex_scan
    scanGets,           \* GETs of the Plex refresh URL so far
    run,                \* which run of the script over the same disk this is
    clean               \* every .mp4 file the first run took was renamed and recorded

vars == <<dry_run, interactive_mode, config, fs, disk, pc, dirIdx, todo, file,
          video_id, title, new_name, confirm, new_file_path, attempt, gets,
          fails, naps, renamed, recorded, ended, slept, scans, scanGets, run,
          clean>>

cfgvars == <<dry_run, interactive_mode, config, run>>
itemvars == <<file, video_id, title, new_name>>
fetchvars == <<attempt, gets, fails, naps>>
donevars == <<confirm, new_file_path, renamed, recorded, ended, slept, clean>>

\* ------------------------------------------------------------------ log lines

\* One record of the logging module: '%(asctime)s - %(levelname)s - %(message)s'
LogLine(level, message) == <<"asctime", " - ", level, " - ">> \o message

\* str(directory / name)
PathStr(directory, name) == directory \o <<"/">> \o name

StartingLine == LogLine("INFO", <<"Starting YouTube title renaming process">>)
CompletedLine == LogLine("INFO", <<"YouTube title renaming process completed">>)

RenamedLine(old, new) ==
    LogLine("INFO", <<"Renamed '">> \o old \o <<"' to '">> \o new \o <<"'">>)

FetchFailedLine(v, n) ==
    LogLine("WARNING", <<"Failed to fetch title for video ID ">> \o v
                          \o <<" after ">> \o IntStr(n) \o <<" attempts">>)

MissingDirLine(path) ==
    LogLine("WARNING", <<"Directory '">> \o path \o <<"' does not exist. Skipping.">>)

ScanOkLine == LogLine("INFO", <<"Triggered Plex library scan successfully.">>)
ScanStatusLine == LogLine("ERROR", <<"Failed to trigger Plex scan. Status code: ">>)
ScanErrorLine == LogLine("ERROR", <<"Error triggering Plex scan: ">>)

\* open(path, "a").write(line): the file is created when it does not exist
AppendLine(d, path, line) ==
    [d EXCEPT ![path] = IF @ = NoFile THEN <<line>> ELSE Append(@, line)]

\* logging.info / warning / error: the handler appends to log_file_path
Logged(d, line) == AppendLine(d, config.log_file_path, line)

\* ------------------------------------------------------------------ Init

\* directory_paths: one to MaxDirs directories
PathLists == UNION {[1..n -> Dirs] : n \in 1..MaxDirs}

Limits == {Len(TitleXY) - 1}
Patterns == {DefaultPattern}

\* The configurations with these directory lists and these patterns.
ConfigsWith(paths, patterns) ==
    [directory_paths : paths,
     max_retries : 1..MaxRetries,
     max_log_entries : {MaxLogEntries},
     title_length_limit : Limits,
     filename_pattern : patterns,
     plex : BOOLEAN,
     metadata_log : {RenamedLog},
     log_file_path : TextPaths]

Configs == ConfigsWith(PathLists, Patterns)

\* What the directories hold when the run starts.
Trees ==
    {t \in [Dirs -> (SUBSET {FileQ, FileZ, FileN}) \cup {NoDir}] :
        /\ t[DirD] \in (SUBSET {FileQ, FileZ}) \cup {NoDir}
        /\ t[DirE] \in {NoDir, {FileN}}}

\* What the metadata log holds when the run starts.
Ledgers == {NoFile, <<EarlierEntry>>}

\* The locals of process_directory's loop body, before a file is taken.
NoItem ==
    /\ file = <<>>
    /\ video_id = <<>>
    /\ title = None
    /\ new_name = <<>>
    /\ confirm = ""
    /\ new_file_path = <<>>
    /\ attempt = 0
    /\ gets = 0
    /\ fails = 0
    /\ naps = 0
    /\ renamed = FALSE
    /\ recorded = FALSE

\* The state when the driver's loop begins: the configuration is loaded and
\* logging.basicConfig has opened log_file_path and written the first record.
Start(configs) ==
    /\ dry_run \in BOOLEAN
    /\ interactive_mode \in BOOLEAN
    /\ config \in configs
    /\ fs \in Trees
    /\ \E ledger \in Ledgers :
          disk = AppendLine([p \in TextPaths |-> IF p = config.metadata_log
                                                  THEN ledger ELSE NoFile],
                            config.log_file_path, StartingLine)
    /\ pc = "driver"
    /\ dirIdx = 1
    /\ todo = {}
    /\ NoItem
    /\ ended = "none"
    /\ slept = FALSE
    /\ scans = [i \in 1..Len(config.directory_paths) |-> 0]
    /\ scanGets = 0
    /\ run = 1
    /\ clean = TRUE

Init == Start(Configs)

\* ------------------------------------------------------------------ the driver

\* The directory the driver's loop is at.
Directory == config.directory_paths[dirIdx]

\* for directory in directory_paths: path.is_dir() holds, process_directory
\* lists the directory.  The directories of the model hold files only, so
\* os.walk and os.listdir give the same list.
EnterDirectory ==
    /\ pc = "driver"
    /\ dirIdx <= Len(config.directory_paths)
    /\ fs[Directory] # NoDir
    /\ todo' = fs[Directory]
    /\ pc' = "walk"
    /\ UNCHANGED <<cfgvars, fs, disk, dirIdx, itemvars, fetchvars, donevars,
                   scans, scanGets>>

\* SkipDirectory with break for continue: a missing directory ends the loop.
SkipDirectory_Break ==
    /\ pc = "driver"
    /\ dirIdx <= Len(config.directory_paths)
    /\ fs[Directory] = NoDir
    /\ disk' = Logged(disk, MissingDirLine(Directory))
    /\ dirIdx' = Len(config.directory_paths) + 1
    /\ UNCHANGED <<cfgvars, fs, pc, todo, itemvars, fetchvars, donevars,
                   scans, scanGets>>

\* path.is_dir() fails: a warning, and on to the next directory.
SkipDirectory ==
    /\ pc = "driver"
    /\ dirIdx <= Len(config.directory_paths)
    /\ fs[Directory] = NoDir
    /\ disk' = Logged(disk, MissingDirLine(Directory))
    /\ dirIdx' = dirIdx + 1
    /\ UNCHANGED <<cfgvars, fs, pc, todo, itemvars, fetchvars, donevars,
                   scans, scanGets>>

\* The loop is over: the closing record, and the script ends.
Complete ==
    /\ pc = "driver"
    /\ dirIdx > Len(config.directory_paths)
    /\ disk' = Logged(disk, CompletedLine)
    /\ pc' = "done"
    /\ UNCHANGED <<cfgvars, fs, dirIdx, todo, itemvars, fetchvars, donevars,
                   scans, scanGets>>

\* ------------------------------------------------------------------ the ledger

\* line.split(',')[0]
FirstField(line) ==
    IF \E i \in 1..Len(line) : line[i] = ","
    THEN SubSeq(line, 1, (CHOOSE i \in 1..Len(line) :
                            line[i] = "," /\ \A j \in 1..(i - 1) : line[j] # ",") - 1)
    ELSE line

\* is_already_renamed matching the identifier against the first field of each
\* line instead of searching the line for it.
is_already_renamed_ByField(v) ==
    LET lines == disk[config.metadata_log]
    IN /\ lines # NoFile
       /\ \E i \in 1..Len(lines) : FirstField(lines[i]) = v

\* is_already_renamed: the metadata log exists and one of its lines contains
\* the identifier.
is_already_renamed(v) ==
    LET lines == disk[config.metadata_log]
    IN /\ lines # NoFile
       /\ \E i \in 1..Len(lines) : Contains(lines[i], v)

\* log_renamed_file: video_id,new_name appended to the metadata log
log_renamed_file(d, v, name) ==
    AppendLine(d, config.metadata_log, v \o <<",">> \o name)

\* lines[-n:]
LastLines(lines, n) ==
    IF n = 0 \/ n >= Len(lines) THEN lines
    ELSE SubSeq(lines, Len(lines) - n + 1, Len(lines))

\* rotate_log_file: log_file_path keeps its last max_log_entries lines
rotate_log_file(d) ==
    LET lines == d[config.log_file_path]
    IN IF Len(lines) > config.max_log_entries
       THEN [d EXCEPT ![config.log_file_path] = LastLines(lines, config.max_log_entries)]
       ELSE d

\* trim_title
trim_title(t) == TrimTo(t, config.title_length_limit)

\* ------------------------------------------------------------------ process_directory

\* The loop body is left, by continue or at its end: the next step takes the
\* next file.  The body's locals are dead from here on and are forgotten;
\* `how` names the way out, `sleeping` tells whether it was time.sleep(wait_timer).
EndItem(how, sleeping) ==
    /\ pc' = "walk"
    /\ file' = <<>>
    /\ video_id' = <<>>
    /\ title' = None
    /\ new_name' = <<>>
    /\ confirm' = ""
    /\ new_file_path' = <<>>
    /\ attempt' = 0
    /\ gets' = 0
    /\ fails' = 0
    /\ naps' = 0
    /\ renamed' = FALSE
    /\ recorded' = FALSE
    /\ ended' = how
    /\ slept' = sleeping
    /\ clean' = (clean /\ (run > 1 \/ how = "processed"))

\* for file in files: a file that does not end in .mp4 is passed over
PassOver ==
    /\ pc = "walk"
    /\ \E f \in todo :
          /\ ~EndsWith(f, Mp4)
          /\ todo' = todo \ {f}
    /\ ended' = "none"
    /\ slept' = FALSE
    /\ UNCHANGED <<cfgvars, fs, disk, pc, dirIdx, itemvars, fetchvars, confirm,
                   new_file_path, renamed, recorded, clean, scans, scanGets>>

\* for file in files: the next .mp4 file, its stem the video ID
NextFile ==
    /\ pc = "walk"
    /\ \E f \in todo :
          /\ EndsWith(f, Mp4)
          /\ todo' = todo \ {f}
          /\ file' = f
          /\ video_id' = Stem(f)
    /\ pc' = "check"
    /\ ended' = "none"
    /\ slept' = FALSE
    /\ UNCHANGED <<cfgvars, fs, disk, dirIdx, title, new_name, fetchvars,
                   confirm, new_file_path, renamed, recorded, clean, scans,
                   scanGets>>

\* SkipCheck with the ledger check dropped: every file goes on to the lookup.
SkipCheck_NoSkip ==
    /\ pc = "check"
    /\ pc' = "fetch"
    /\ UNCHANGED <<cfgvars, fs, disk, dirIdx, todo, itemvars, fetchvars, donevars,
                   scans, scanGets>>

\* if is_already_renamed(video_id): continue; otherwise the title is fetched
SkipCheck ==
    /\ pc = "check"
    /\ IF is_already_renamed(video_id)
       THEN EndItem("skipped", FALSE)
       ELSE /\ pc' = "fetch"
            /\ UNCHANGED <<itemvars, fetchvars, donevars>>
    /\ UNCHANGED <<cfgvars, fs, disk, dirIdx, todo, scans, scanGets>>

\* FetchAttempt with the loop bound off by one: range(max_retries + 1).
FetchAttempt_OneMore ==
    /\ pc = "fetch"
    /\ attempt <= config.max_retries
    /\ gets' = gets + 1
    /\ \E r \in Responses :
          /\ title' = IF r.status = "ok" THEN r.title ELSE title
          /\ pc' = CASE r.status = "ok" -> "title"
                      [] r.status = "fail" -> "nap"
                      [] OTHER -> "crashed"
          /\ fails' = IF r.status = "ok" THEN fails ELSE fails + 1
    /\ UNCHANGED <<cfgvars, fs, disk, dirIdx, todo, file, video_id, new_name,
                   attempt, naps, donevars, scans, scanGets>>

\* fetch_youtube_title, one pass of the loop up to its sleep: a GET that gives
\* the title returns it, one that gives none goes on to the sleep, and an
\* exception of requests.get is caught nowhere and ends the script.
FetchAttempt ==
    /\ pc = "fetch"
    /\ attempt < config.max_retries
    /\ gets' = gets + 1
    /\ \E r \in Responses :
          /\ title' = IF r.status = "ok" THEN r.title ELSE title
          /\ pc' = CASE r.status = "ok" -> "title"
                      [] r.status = "fail" -> "nap"
                      [] OTHER -> "crashed"
          /\ fails' = IF r.status = "ok" THEN fails ELSE fails + 1
    /\ UNCHANGED <<cfgvars, fs, disk, dirIdx, todo, file, video_id, new_name,
                   attempt, naps, donevars, scans, scanGets>>

\* time.sleep(retry_delay) at the end of a pass that gave no title
RetrySleep ==
    /\ pc = "nap"
    /\ naps' = naps + 1
    /\ attempt' = attempt + 1
    /\ pc' = "fetch"
    /\ UNCHANGED <<cfgvars, fs, disk, dirIdx, todo, itemvars, gets, fails,
                   donevars, scans, scanGets>>

\* The loop ran out: a warning, and None is returned.
FetchGiveUp ==
    /\ pc = "fetch"
    /\ attempt >= config.max_retries
    /\ disk' = Logged(disk, FetchFailedLine(video_id, config.max_retries))
    /\ title' = None
    /\ pc' = "title"
    /\ UNCHANGED <<cfgvars, fs, dirIdx, todo, file, video_id, new_name,
                   fetchvars, donevars, scans, scanGets>>

\* UseTitle with the sleep after the if instead of inside it: a file without
\* a title still waits wait_timer.
UseTitle_SleepAnyway ==
    /\ pc = "title"
    /\ IF title = None \/ title = <<>>
       THEN pc' = "wait" /\ UNCHANGED <<itemvars, fetchvars, donevars>>
       ELSE LET name == apply_filename_pattern(config.filename_pattern,
                                               trim_title(title), video_id)
            IN /\ new_name' = name
               /\ pc' = IF name \in FormatErrors THEN "crashed"
                        ELSE IF interactive_mode THEN "confirm" ELSE "rename"
               /\ UNCHANGED <<file, video_id, title, fetchvars, donevars>>
    /\ UNCHANGED <<cfgvars, fs, disk, dirIdx, todo, scans, scanGets>>

\* if title: the title is trimmed and the pattern applied (the KeyError or
\* ValueError that format raises is caught nowhere and ends the script);
\* with no title, or an empty one, the loop goes on to the next file.
UseTitle ==
    /\ pc = "title"
    /\ IF title = None \/ title = <<>>
       THEN EndItem("untitled", FALSE)
       ELSE LET name == apply_filename_pattern(config.filename_pattern,
                                               trim_title(title), video_id)
            IN /\ new_name' = name
               /\ pc' = IF name \in FormatErrors THEN "crashed"
                        ELSE IF interactive_mode THEN "confirm" ELSE "rename"
               /\ UNCHANGED <<file, video_id, title, fetchvars, donevars>>
    /\ UNCHANGED <<cfgvars, fs, disk, dirIdx, todo, scans, scanGets>>

\* What the user may type at the prompt.
Answers == {"y", " Y ", "n", "yes", ""}

\* answer.strip().lower(), on the answers above
StripLower(answer) == IF answer = " Y " THEN "y" ELSE answer

\* Confirm with the test turned round, if confirm == 'n': any other answer
\* lets the rename go on.
Confirm_UnlessNo ==
    /\ pc = "confirm"
    /\ \E answer \in Answers :
          IF StripLower(answer) = "n"
          THEN EndItem("declined", FALSE)
          ELSE /\ confirm' = StripLower(answer)
               /\ pc' = "rename"
               /\ UNCHANGED <<itemvars, fetchvars, new_file_path, renamed,
                              recorded, ended, slept, clean>>
    /\ UNCHANGED <<cfgvars, fs, disk, dirIdx, todo, scans, scanGets>>

\* Interactive mode: only the answer y lets the rename go on.
Confirm ==
    /\ pc = "confirm"
    /\ \E answer \in Answers :
          IF StripLower(answer) # "y"
          THEN EndItem("declined", FALSE)
          ELSE /\ confirm' = StripLower(answer)
               /\ pc' = "rename"
               /\ UNCHANGED <<itemvars, fetchvars, new_file_path, renamed,
                              recorded, ended, slept, clean>>
    /\ UNCHANGED <<cfgvars, fs, disk, dirIdx, todo, scans, scanGets>>

\* ------------------------------------------------------------------ rename_file

\* f"{new_name}_{counter}.mp4"
Numbered(name, counter) == name \o <<"_">> \o IntStr(counter) \o Mp4

\* while new_file_path.exists(): the next numbered name
RECURSIVE FirstFree(_, _, _)
FirstFree(names, name, counter) ==
    IF Numbered(name, counter) \notin names THEN Numbered(name, counter)
    ELSE FirstFree(names, name, counter + 1)

\* RenameTarget without the exists() loop: the new name is taken as it is.
RenameTarget_Overwrite(names, name) == name

\* The name rename_file moves the file to, in a directory holding `names`.
RenameTarget(names, name) ==
    IF name \notin names THEN name ELSE FirstFree(names, name, 1)

\* rename_file: nothing but a print in a dry run; otherwise os.rename to the
\* first free name, and a record of it in the log.
rename_file ==
    IF dry_run
    THEN UNCHANGED <<fs, disk, renamed, new_file_path>>
    ELSE LET target == RenameTarget(fs[Directory], new_name)
         IN /\ new_file_path' = target
            /\ fs' = [fs EXCEPT ![Directory] = (@ \ {file}) \cup {target}]
            /\ disk' = Logged(disk, RenamedLine(PathStr(Directory, file),
                                                PathStr(Directory, target)))
            /\ renamed' = TRUE

\* rename_file(file_path, new_name)
Rename ==
    /\ pc = "rename"
    /\ rename_file
    /\ pc' = "record"
    /\ UNCHANGED <<cfgvars, dirIdx, todo, itemvars, fetchvars, confirm, recorded,
                   ended, slept, clean, scans, scanGets>>

\* log_renamed_file(video_id, new_name)
Record ==
    /\ pc = "record"
    /\ disk' = log_renamed_file(disk, video_id, new_name)
    /\ recorded' = TRUE
    /\ pc' = "rotate"
    /\ UNCHANGED <<cfgvars, fs, dirIdx, todo, itemvars, fetchvars, confirm,
                   new_file_path, renamed, ended, slept, clean, scans, scanGets>>

\* rotate_log_file()
Rotate ==
    /\ pc = "rotate"
    /\ disk' = rotate_log_file(disk)
    /\ pc' = "wait"
    /\ UNCHANGED <<cfgvars, fs, dirIdx, todo, itemvars, fetchvars, donevars,
                   scans, scanGets>>

\* Wait without the sleep: the loop body ends at rotate_log_file().
Wait_NoSleep ==
    /\ pc = "wait"
    /\ EndItem("processed", FALSE)
    /\ UNCHANGED <<cfgvars, fs, disk, dirIdx, todo, scans, scanGets>>

\* time.sleep(wait_timer), the end of the loop body
Wait ==
    /\ pc = "wait"
    /\ EndItem("processed", TRUE)
    /\ UNCHANGED <<cfgvars, fs, disk, dirIdx, todo, scans, scanGets>>

\* ------------------------------------------------------------------ trigger_plex_scan

\* What the GET of the refresh URL may do: status 200, another status, or a
\* RequestException, which trigger_plex_scan catches.
ScanOutcomes == {"200", "status", "error"}

ScanLine(outcome) ==
    CASE outcome = "200" -> ScanOkLine
      [] outcome = "status" -> ScanStatusLine
      [] OTHER -> ScanErrorLine

\* trigger_plex_scan: without a token or a section ID nothing is sent;
\* otherwise one GET, whose outcome is logged.
trigger_plex_scan ==
    IF ~config.plex
    THEN UNCHANGED <<disk, scanGets>>
    ELSE /\ scanGets' = scanGets + 1
         /\ \E outcome \in ScanOutcomes : disk' = Logged(disk, ScanLine(outcome))

\* PlexScan called from inside the loop over the files: it may run while
\* files of the listing are still to be visited.
PlexScan_Early ==
    /\ pc = "walk"
    /\ scans' = [scans EXCEPT ![dirIdx] = @ + 1]
    /\ trigger_plex_scan
    /\ dirIdx' = dirIdx + 1
    /\ pc' = "driver"
    /\ ended' = "none"
    /\ slept' = FALSE
    /\ UNCHANGED <<cfgvars, fs, todo, itemvars, fetchvars, confirm, new_file_path,
                   renamed, recorded, clean>>

\* PlexScan without the except clause: a RequestException ends the script.
PlexScan_Uncaught ==
    /\ pc = "walk"
    /\ todo = {}
    /\ scans' = [scans EXCEPT ![dirIdx] = @ + 1]
    /\ ended' = "none"
    /\ slept' = FALSE
    /\ IF ~config.plex
       THEN /\ dirIdx' = dirIdx + 1
            /\ pc' = "driver"
            /\ UNCHANGED <<disk, scanGets>>
       ELSE /\ scanGets' = scanGets + 1
            /\ \E outcome \in ScanOutcomes :
                  IF outcome = "error"
                  THEN pc' = "crashed" /\ UNCHANGED <<disk, dirIdx>>
                  ELSE /\ disk' = Logged(disk, ScanLine(outcome))
                       /\ dirIdx' = dirIdx + 1
                       /\ pc' = "driver"
    /\ UNCHANGED <<cfgvars, fs, todo, itemvars, fetchvars, confirm, new_file_path,
                   renamed, recorded, clean>>

\* The files of the directory are done: trigger_plex_scan(), and
\* process_directory returns to the driver's loop.
PlexScan ==
    /\ pc = "walk"
    /\ todo = {}
    /\ scans' = [scans EXCEPT ![dirIdx] = @ + 1]
    /\ trigger_plex_scan
    /\ dirIdx' = dirIdx + 1
    /\ pc' = "driver"
    /\ ended' = "none"
    /\ slept' = FALSE
    /\ UNCHANGED <<cfgvars, fs, todo, itemvars, fetchvars, confirm, new_file_path,
                   renamed, recorded, clean>>

\* ------------------------------------------------------------------ specification

Next ==
    \/ EnterDirectory
    \/ SkipDirectory
    \/ Complete
    \/ PassOver
    \/ NextFile
    \/ SkipCheck
    \/ FetchAttempt
    \/ RetrySleep
    \/ FetchGiveUp
    \/ UseTitle
    \/ Confirm
    \/ Rename
    \/ Record
    \/ Rotate
    \/ Wait
    \/ PlexScan

Spec == Init /\ [][Next]_vars

\* The runs over one directory under any filename pattern: the default one,
\* one that names an unknown field, and a malformed one.
AnyPatterns == {DefaultPattern, UnknownFieldPattern, MalformedPattern}
InitPattern == Start(ConfigsWith({<<DirD>>, <<DirE>>}, AnyPatterns))
SpecPattern == InitPattern /\ [][Next]_vars

\* The script has ended and is started again with the same arguments and the
\* same config.json, over the directories and the text files as the run
\* before left them: logging is set up anew and the first record written.
Rerun ==
    /\ pc = "done"
    /\ run < MaxRuns
    /\ run' = run + 1
    /\ disk' = Logged(disk, StartingLine)
    /\ pc' = "driver"
    /\ dirIdx' = 1
    /\ scans' = [i \in 1..Len(config.directory_paths) |-> 0]
    /\ scanGets' = 0
    /\ UNCHANGED <<dry_run, interactive_mode, config, fs, todo, itemvars,
                   fetchvars, donevars>>

\* The runs over one directory, and the runs that follow them.
InitRerun == Start(ConfigsWith({<<DirD>>, <<DirE>>}, Patterns))
NextRerun == Next \/ Rerun
SpecRerun == InitRerun /\ [][NextRerun]_vars

\* ------------------------------------------------------------------ properties

\* The metadata log and the log, as lines (no lines when the file is absent).
Lines(path) == IF disk[path] = NoFile THEN <<>> ELSE disk[path]
Ledger == Lines(config.metadata_log)
RunLogLines == Lines(config.log_file_path)

\* A line log_renamed_file wrote: it does not open with a log record's time.
IsEntry(line) == line = <<>> \/ line[1] # "asctime"
Entries(lines) == SelectSeq(lines, IsEntry)

\* C1: a file whose identifier the ledger check reports is skipped: no GET of
\* the watch page, no rename, nothing written to the ledger or the log, no
\* wait_timer sleep, and the loop goes on with the files still to visit.
C1_SkipTouchesNothing ==
    [][(pc = "check" /\ is_already_renamed(video_id)) =>
          /\ pc' = "walk"
          /\ ended' = "skipped"
          /\ gets = 0 /\ gets' = 0
          /\ fs' = fs
          /\ disk' = disk
          /\ ~slept'
          /\ todo' = todo
          /\ dirIdx' = dirIdx]_vars

\* C1 witness: a file was skipped on the ledger's word, and it is still there.
C1_Witness ==
    /\ pc = "walk"
    /\ ended = "skipped"
    /\ fs[Directory] # {}

\* C2 as claimed: in a dry run nothing is renamed, nothing is appended to the
\* ledger and trigger_plex_scan is never called.
C2_DryRunChangesNothing ==
    dry_run =>
        /\ ~renamed
        /\ ~recorded
        /\ \A i \in 1..Len(config.directory_paths) : scans[i] = 0
        /\ scanGets = 0

\* The candidates of rename_file in the order it tries them.
Candidate(name, k) ==
    IF k = 0 THEN name ELSE name \o <<"_">> \o IntStr(k) \o Mp4

\* C3: rename_file moves the file to the first of new_name, new_name_1.mp4,
\* new_name_2.mp4, ... that does not exist: no name is lost from the
\* directory, the count of files stays, and no other directory changes.
C3_RenameNeverOverwrites ==
    [][(pc = "rename" /\ ~dry_run) =>
          \E n \in 0..Cardinality(fs[Directory]) :
              /\ Candidate(new_name, n) \notin fs[Directory]
              /\ \A k \in 0..(n - 1) : Candidate(new_name, k) \in fs[Directory]
              /\ fs'[Directory] = (fs[Directory] \ {file}) \cup {Candidate(new_name, n)}
              /\ Cardinality(fs'[Directory]) = Cardinality(fs[Directory])
              /\ \A d \in Dirs \ {Directory} : fs'[d] = fs[d]]_vars

\* C3 witness: a rename met an existing name and took the numbered one; both
\* files are there.
C3_Witness ==
    /\ pc = "record"
    /\ renamed
    /\ new_name \in fs[Directory]
    /\ Candidate(new_name, 1) \in fs[Directory]

\* C4: from the lookup's first GET to the skip, a file whose lookup ends in
\* None is not renamed, gets no ledger entry and no wait_timer sleep, and the
\* loop goes on with the files still to visit.
C4_NoTitleNoEffect ==
    [][/\ pc \in {"fetch", "nap", "title"} =>
            /\ fs' = fs
            /\ Entries(Lines(config.metadata_log))' = Entries(Lines(config.metadata_log))
            /\ ~renamed' /\ ~recorded' /\ ~slept'
       /\ (pc = "title" /\ title = None) =>
            /\ pc' = "walk"
            /\ ended' = "untitled"
            /\ todo' = todo
            /\ dirIdx' = dirIdx]_vars

\* C4 witness: the retries ran out and the file was passed by; it is still
\* there under its name.
C4_Witness ==
    /\ pc = "title"
    /\ title = None
    /\ fails = config.max_retries
    /\ file \in fs[Directory]
    /\ todo # {}

\* C5: a lookup makes at most max_retries GETs; it returns a title from the
\* first GET that gives one and makes no more; it returns None exactly when
\* max_retries GETs gave none; and every GET that gave none is followed by one
\* retry_delay sleep before the next.
C5_FetchRetries ==
    /\ gets <= config.max_retries
    /\ fails <= gets
    /\ (pc = "title" /\ title # None) => (gets = fails + 1)
    /\ (pc = "title" /\ title = None) =>
            (fails = config.max_retries /\ gets = config.max_retries)
    /\ pc = "fetch" => (naps = fails /\ gets = fails /\ attempt = fails)
    /\ pc = "nap" => (naps = fails - 1 /\ gets = fails)

\* C5 witness: a title came at the second GET, after one failure and one sleep.
C5_Witness ==
    /\ pc = "title"
    /\ title # None
    /\ fails = 1
    /\ naps = 1
    /\ gets = 2

\* C6 as claimed: a file's ledger line is written only after its rename.
C6_RecordedOnlyAfterRename == recorded => renamed

\* C7: trigger_plex_scan is called once for every directory_paths entry that
\* is a directory, when no file of its listing is left, before the loop moves
\* on; and never for an entry that is not a directory.
C7_ScanOncePerDirectory ==
    /\ [](\A i \in 1..Len(config.directory_paths) :
            scans[i] = IF i < dirIdx /\ fs[config.directory_paths[i]] # NoDir
                       THEN 1 ELSE 0)
    /\ [][scans' # scans =>
            /\ pc = "walk" /\ todo = {}
            /\ pc' = "driver" /\ dirIdx' = dirIdx + 1]_vars

\* C7 witness: two directories were processed and each was scanned once.
C7_Witness ==
    /\ pc = "done"
    /\ Len(config.directory_paths) = 2
    /\ scans = <<1, 1>>

\* C8 as claimed: after rotation the ledger holds at most max_log_entries
\* lines.
C8_RotationBoundsLedger ==
    pc = "wait" => Len(Ledger) <= config.max_log_entries

\* The records trigger_plex_scan may log.
ScanFailureLines == {ScanStatusLine, ScanErrorLine}

\* C9: whatever the refresh GET does, trigger_plex_scan logs it and returns:
\* the driver's loop moves on to the next entry.
C9_ScanFailureGoesOn ==
    [][(pc = "walk" /\ todo = {}) =>
          /\ pc' = "driver"
          /\ dirIdx' = dirIdx + 1
          /\ config.plex =>
                /\ scanGets' = scanGets + 1
                /\ RunLogLines' = Append(RunLogLines, RunLogLines'[Len(RunLogLines')])
                /\ RunLogLines'[Len(RunLogLines')] \in ScanFailureLines \cup {ScanOkLine}]_vars

\* C9 witness: the scan of the first directory failed and the second
\* directory is being processed.
C9_Witness ==
    /\ pc = "walk"
    /\ dirIdx = 2
    /\ RunLogLines[Len(RunLogLines)] \in ScanFailureLines

\* C10: an entry of directory_paths that is no directory is logged and left:
\* no file changes, no GET, no scan, and the loop takes the next entry.
C10_MissingDirectorySkipped ==
    [][(pc = "driver" /\ dirIdx <= Len(config.directory_paths)
            /\ fs[Directory] = NoDir) =>
          /\ pc' = "driver"
          /\ dirIdx' = dirIdx + 1
          /\ fs' = fs
          /\ gets' = gets
          /\ scans' = scans
          /\ scanGets' = scanGets
          /\ RunLogLines' = Append(RunLogLines, MissingDirLine(Directory))
          /\ Entries(Ledger)' = Entries(Ledger)]_vars

\* C10 witness: the first entry was no directory and the second is being
\* processed.
C10_Witness ==
    /\ pc = "walk"
    /\ dirIdx = 2
    /\ fs[config.directory_paths[1]] = NoDir
    /\ todo # {}

\* ------------------------------------------------------------------ the functions on their own

\* All texts of at most n characters over an alphabet.
TextsOver(alphabet, n) == UNION {[1..k -> alphabet] : k \in 0..n}

\* The titles trim_title is applied to, and the filenames sanitize_filename is.
TrimTitles == TextsOver({"a", " "}, MaxTitleLen)
SanitizeNames == TextsOver({"a", " ", ":", "?"}, MaxNameLen)

\* The lines a metadata log may hold, and what the file may be: absent, empty,
\* or one or two of these lines.
LedgerLines ==
    { <<"q", ",", "o">> \o Mp4,
      <<"z", ",", "q">> \o Mp4,
      <<"o", "q", ",", "x">> \o Mp4,
      RenamedLine(PathStr(DirD, FileZ), PathStr(DirD, <<"x">> \o Mp4)) }
LedgerFiles == {NoFile} \cup UNION {[1..k -> LedgerLines] : k \in 0..2}

\* The identifiers looked for in it.
LedgerIds == { <<"q">>, <<"z">>, <<"o">>, <<"x">>, <<"q", "o">>, <<"o", "q">>,
               <<"q", ",", "o">>, <<"z", ".", "m", "p", "4">>, <<"d">> }

\* A configuration for one call of one function.
CallConfig(limit) ==
    [directory_paths |-> <<DirD>>,
     max_retries |-> 1,
     max_log_entries |-> MaxLogEntries,
     title_length_limit |-> limit,
     filename_pattern |-> DefaultPattern,
     plex |-> FALSE,
     metadata_log |-> RenamedLog,
     log_file_path |-> RunLog]

\* One call is about to be made: of trim_title (pc "trim") on any title under
\* any limit, of sanitize_filename (pc "sanitize") on any filename, or of
\* is_already_renamed (pc "check") on any identifier against any metadata log.
InitCall ==
    /\ dry_run = FALSE
    /\ interactive_mode = FALSE
    /\ fs = [d \in Dirs |-> IF d = DirD THEN {} ELSE NoDir]
    /\ dirIdx = 1
    /\ todo = {}
    /\ file = <<>>
    /\ new_name = <<>>
    /\ confirm = ""
    /\ new_file_path = <<>>
    /\ attempt = 0
    /\ gets = 0
    /\ fails = 0
    /\ naps = 0
    /\ renamed = FALSE
    /\ recorded = FALSE
    /\ ended = "none"
    /\ slept = FALSE
    /\ scans = <<0>>
    /\ scanGets = 0
    /\ run = 1
    /\ clean = TRUE
    /\ pc \in {"trim", "sanitize", "check"}
    /\ config \in {CallConfig(limit) :
                     limit \in IF pc = "trim" THEN 0..MaxTitleLen ELSE {0}}
    /\ title \in CASE pc = "trim" -> TrimTitles
                   [] pc = "sanitize" -> SanitizeNames
                   [] OTHER -> {None}
    /\ video_id \in IF pc = "check" THEN LedgerIds ELSE {<<>>}
    /\ disk \in {[p \in TextPaths |-> IF p = RenamedLog THEN ledger ELSE NoFile] :
                   ledger \in IF pc = "check" THEN LedgerFiles ELSE {NoFile}}

\* trimmed_title = trim_title(title, title_length_limit); the result is kept
\* in new_name.
TrimCall ==
    /\ pc = "trim"
    /\ new_name' = trim_title(title)
    /\ pc' = "trimmed"
    /\ UNCHANGED <<cfgvars, fs, disk, dirIdx, todo, file, video_id, title,
                   fetchvars, donevars, scans, scanGets>>

\* sanitize_filename(title); the result is kept in new_name.
SanitizeCall ==
    /\ pc = "sanitize"
    /\ new_name' = sanitize_filename(title)
    /\ pc' = "sanitized"
    /\ UNCHANGED <<cfgvars, fs, disk, dirIdx, todo, file, video_id, title,
                   fetchvars, donevars, scans, scanGets>>

NextCall ==
    \/ TrimCall
    \/ SanitizeCall
    \/ SkipCheck

SpecCall == InitCall /\ [][NextCall]_vars

\* s is t[:Len(s)]
IsPrefix(s, t) == Len(s) <= Len(t) /\ SubSeq(t, 1, Len(s)) = s

\* A cut of t after its first k characters falls inside no word: it is at an
\* end of t, or a space is next to it.
AtWordBoundary(t, k) ==
    \/ k = 0
    \/ k >= Len(t)
    \/ t[k] = " "
    \/ t[k + 1] = " "

\* C11: trim_title returns a prefix of the title no longer than the limit,
\* and when it has cut the title the cut is inside no word.
C11_TrimEndsOnWordBoundary ==
    pc = "trimmed" =>
        /\ IsPrefix(new_name, title)
        /\ Len(new_name) <= config.title_length_limit
        /\ AtWordBoundary(title, Len(new_name))

\* C12: sanitize_filename returns the fallback name unnamed_file for a
\* filename that is empty or made of forbidden characters only.
C12_FallbackForForbiddenOnly ==
    (pc = "sanitized" /\ \A i \in 1..Len(title) : title[i] \in Forbidden) =>
        new_name = UnnamedFile

\* The configured pattern names a field format is not given, or is malformed.
BadPattern == config.filename_pattern \in {UnknownFieldPattern, MalformedPattern}

\* C13: under a filename pattern with an unknown field or a
\* malformed one the run aborts at startup, before any title lookup, rename
\* or ledger write.
C13_PatternErrorAtStartup ==
    BadPattern => gets = 0 /\ ~renamed /\ ~recorded

\* C14: the ledger line written for a renamed file is its identifier, a
\* comma, and the name the file has on disk after the rename, numeric suffix
\* included.
C14_LedgerNamesFileOnDisk ==
    (pc = "rotate" /\ renamed) =>
        /\ new_file_path \in fs[Directory]
        /\ Ledger # <<>>
        /\ Ledger[Len(Ledger)] = video_id \o <<",">> \o new_file_path

\* C15: after a first run, neither dry nor interactive, in which every .mp4
\* file taken was renamed and recorded, a second run makes no title lookup,
\* renames nothing and writes no ledger line.
C15_SecondRunDoesNothing ==
    (run = 2 /\ ~dry_run /\ ~interactive_mode /\ clean) =>
        /\ pc \notin {"fetch", "nap", "title", "confirm", "rename", "record",
                      "rotate", "wait"}
        /\ gets = 0
        /\ ~renamed
        /\ ~recorded

\* C16: files are processed one at a time, and a file that reaches the
\* rename goes through rename, record and rotation to exactly one wait_timer
\* sleep, after which the loop is back at its head, where alone the next
\* file is taken or the Plex scan made; a file left by the ledger check,
\* for want of a title or by a declined confirmation is left without a sleep.
C16_OneSleepPerProcessedFile ==
    [][/\ (pc' = "check" => pc = "walk" /\ ~renamed /\ ~recorded /\ gets = 0)
       /\ (pc' = "driver" => pc \in {"walk", "driver", "done"})
       /\ (pc = "rename" => pc' = "record" /\ ~slept')
       /\ (pc = "record" => pc' = "rotate" /\ ~slept')
       /\ (pc = "rotate" => pc' = "wait" /\ ~slept')
       /\ (pc = "wait" => pc' = "walk" /\ slept' /\ ended' = "processed")
       /\ (slept' => pc = "wait")
       /\ (ended' = "processed" => pc = "wait")
       /\ (ended' \in {"skipped", "untitled", "declined"} =>
              /\ pc \in {"check", "title", "confirm"}
              /\ pc' = "walk"
              /\ ~slept')]_vars

C16_Witness ==
    /\ pc = "walk"
    /\ ended = "processed"
    /\ slept
    /\ todo # {}

\* C17: in interactive mode a declined confirmation leaves the file as it
\* is, writes nothing to the ledger or the log, and hands the loop the files
\* still to visit; the rename is reached only with the answer y, and only
\* the rename step changes a directory.
C17_DeclineLeavesFile ==
    /\ []((interactive_mode /\ pc \in {"rename", "record", "rotate", "wait"}) =>
             confirm = "y")
    /\ [][/\ (pc = "confirm" =>
                \/ /\ ended' = "declined"
                   /\ pc' = "walk"
                   /\ fs' = fs
                   /\ disk' = disk
                   /\ todo' = todo
                   /\ ~renamed' /\ ~recorded'
                \/ /\ confirm' = "y"
                   /\ pc' = "rename"
                   /\ fs' = fs
                   /\ disk' = disk)
          /\ (fs' # fs => pc = "rename")
          /\ (interactive_mode /\ pc' = "rename" => pc = "confirm")]_vars

C17_Witness ==
    /\ interactive_mode
    /\ pc = "walk"
    /\ ended = "declined"
    /\ file = <<>>
    /\ todo # {}

\* The characters of v stand in line from position i on.
OccursAt(line, v, i) ==
    /\ i + Len(v) - 1 <= Len(line)
    /\ \A j \in 1..Len(v) : line[i + j - 1] = v[j]

\* C18: the ledger check answers yes (the file is skipped) exactly when the
\* metadata log exists and the identifier occurs as a run of consecutive
\* characters somewhere in one of its lines, in whichever field; with no
\* metadata log it answers no.
C18_SkipIffSubstring ==
    [][pc = "check" =>
          (ended' = "skipped" <=>
              /\ disk[config.metadata_log] # NoFile
              /\ \E k \in 1..Len(disk[config.metadata_log]) :
                    \E i \in 1..Len(disk[config.metadata_log][k]) :
                       OccursAt(disk[config.metadata_log][k], video_id, i))]_vars

C18_Witness ==
    /\ pc = "walk"
    /\ ended = "skipped"
    /\ Len(Ledger) = 1
    /\ FirstField(Ledger[1]) = <<"z">>

\* The largest number of a non-empty finite set of numbers.
Max(S) == CHOOSE x \in S : \A y \in S : y <= x

\* The lengths, up to n, of the prefixes of t that a space follows, and the
\* positions of the spaces among the first n characters of t.
BeforeSpace(t, n) == {k \in 0..n : k < Len(t) /\ t[k + 1] = " "}
SpacesWithin(t, n) == {i \in 1..n : i <= Len(t) /\ t[i] = " "}

\* C19 as claimed: a title longer than the limit is cut to the longest of
\* its prefixes, no longer than the limit, that a space follows in the title.
C19_LongestPrefixBeforeSpace ==
    (/\ pc = "trimmed"
     /\ Len(title) > config.title_length_limit
     /\ BeforeSpace(title, config.title_length_limit) # {}) =>
        /\ IsPrefix(new_name, title)
        /\ Len(new_name) = Max(BeforeSpace(title, config.title_length_limit))

\* C19, amended: a title longer than the limit L is cut just before the last
\* space among its first L characters, so a word that ends exactly at
\* position L is dropped with the space before it; when the first L
\* characters hold no space the result is the first L characters.
C19_CutBeforeLastSpaceWithinLimit ==
    (pc = "trimmed" /\ Len(title) > config.title_length_limit) =>
        /\ IsPrefix(new_name, title)
        /\ Len(new_name) =
              IF SpacesWithin(title, config.title_length_limit) = {}
              THEN config.title_length_limit
              ELSE Max(SpacesWithin(title, config.title_length_limit)) - 1

C19_Witness ==
    /\ pc = "trimmed"
    /\ Len(title) > config.title_length_limit
    /\ title[config.title_length_limit + 1] = " "
    /\ SpacesWithin(title, config.title_length_limit) # {}
    /\ title[config.title_length_limit] # " "
    /\ Len(new_name) < config.title_length_limit - 1
====
